---- MODULE Spec2Model ----
(***************************************************************************)
(* A model of the Director of package task (Vetcher/task): registration   *)
(* (With), start (Begin), Wait, the per-workplace launcher, the loop,     *)
(* ticker and event strands, and the single invocation point execWorker   *)
(* with its error policy and its detached chain to the next workers.      *)
(***************************************************************************)
EXTENDS Integers, Sequences, FiniteSets, Bags, TLC

\* ------------------------------------------------------------------ bounds
\* Largest n passed to Repeat(n).
MaxRepeat == 2
\* Invocations a ticker strand, an event strand or an infinite loop strand
\* makes before the model stops triggering it.
MaxCalls == 2
\* Values a worker returns and WithArgs passes: 1..MaxValue.
MaxValue == 1
\* Values an event channel delivers: 1..MaxEvent.
MaxEvent == 2
\* Total number of arguments of the With calls that made the registry: one
\* worker per workplace, and its parameters other than Id.
MaxArgs == 4
\* Detached next-worker invocations in flight at once.
MaxCascade == 2

\* ------------------------------------------------------------ value spaces
IDs == {"a", "b"}
Threads == {"t1", "t2"}
Values == 1..MaxValue
Events == 1..MaxEvent
\* Result lists of a worker: no value or one value.
ArgLists == {<<>>} \cup {<<v>> : v \in Values}

TimeoutError == "execution timeout"
\* ctx.Err() of a context that is done, and the error of a failed worker.
ContextError == "context canceled"
WorkerError == "worker failed"
DirectorAlreadyWorks == "director is working already"
DirectorNotWorks == "director is not working yet"

\* ---------------------------------------------------------- worker params
Chans == {"c1"}
Durations == {"1s"}
\* What NotifyError is given: no channel, or the channel the caller reads.
ErrChans == {"nil", "errs"}
\* The contexts given to WithContext and to TimeoutMiddleware.Work, apart
\* from context.Background().
Contexts == {"ctx"}

defaultWorkerParams ==
    [id |-> "", firstArgs |-> <<>>, delayFunc |-> FALSE,
     amountOfExecutions |-> 0, nextWorkers |-> <<>>,
     notifyOnError |-> FALSE, panicOnError |-> FALSE,
     notifyOnErrorChan |-> "nil", stopOnError |-> TRUE,
     tickerDurations |-> <<>>, eventChannels |-> <<>>,
     rootContext |-> "Background"]

\* The worker parameters: each takes the params it is applied to last.
Id(id, params) == [params EXCEPT !.id = id]
WithDelay(params) == [params EXCEPT !.delayFunc = TRUE]
Repeat(n, params) == [params EXCEPT !.amountOfExecutions = n]
Infinitely(params) == Repeat(-1, params)
WithArgs(args, params) == [params EXCEPT !.firstArgs = args]
TriggenOn(ch, params) ==
    [params EXCEPT !.eventChannels = Append(params.eventChannels, ch)]
Every(duration, params) ==
    [params EXCEPT !.tickerDurations = Append(params.tickerDurations, duration)]
NotifyError(errCh, params) ==
    [params EXCEPT !.notifyOnError = (errCh # "nil"), !.notifyOnErrorChan = errCh]
IgnoreWorkerErrors(ignore, params) == [params EXCEPT !.stopOnError = ~ignore]
PanicOnError(p, params) == [params EXCEPT !.panicOnError = p]
NextParam(id, params) ==
    [params EXCEPT !.nextWorkers = Append(params.nextWorkers, id)]

WithContext(ctx, params) == [params EXCEPT !.rootContext = ctx]

\* A WorkerParameter value: the name of the constructor and its argument.
WorkerParameter ==
    ({"Id"} \X IDs)
        \cup ({"Repeat"} \X (0..MaxRepeat))
        \cup {<<"Infinitely", 0>>, <<"WithDelay", 0>>}
        \cup ({"WithArgs"} \X ArgLists)
        \cup ({"TriggenOn"} \X Chans)
        \cup ({"Every"} \X Durations)
        \cup ({"NotifyError"} \X ErrChans)
        \cup ({"IgnoreWorkerErrors", "PanicOnError"} \X BOOLEAN)
        \cup ({"Next"} \X IDs)

\* The WorkerParameter values made by WithContext, with a context that can
\* be cancelled.
ContextParameter == {"WithContext"} \X Contexts

\* param(&p): the call of one WorkerParameter on a params value.
Apply(param, params) ==
    CASE param[1] = "Id" -> Id(param[2], params)
      [] param[1] = "Repeat" -> Repeat(param[2], params)
      [] param[1] = "Infinitely" -> Infinitely(params)
      [] param[1] = "WithDelay" -> WithDelay(params)
      [] param[1] = "WithArgs" -> WithArgs(param[2], params)
      [] param[1] = "TriggenOn" -> TriggenOn(param[2], params)
      [] param[1] = "Every" -> Every(param[2], params)
      [] param[1] = "NotifyError" -> NotifyError(param[2], params)
      [] param[1] = "IgnoreWorkerErrors" -> IgnoreWorkerErrors(param[2], params)
      [] param[1] = "PanicOnError" -> PanicOnError(param[2], params)
      [] param[1] = "Next" -> NextParam(param[2], params)
      [] param[1] = "WithContext" -> WithContext(param[2], params)

\* The number of settings of a params value that differ from the default
\* (the identifier apart): the parameters it takes to make it, the error
\* policy (IgnoreWorkerErrors, PanicOnError) counting as one setting.
Weight(params) ==
    (IF params.firstArgs # <<>> THEN 1 ELSE 0)
        + (IF params.delayFunc THEN 1 ELSE 0)
        + (IF params.amountOfExecutions # 0 THEN 1 ELSE 0)
        + Len(params.nextWorkers)
        + (IF params.notifyOnError THEN 1 ELSE 0)
        + (IF params.panicOnError \/ ~params.stopOnError THEN 1 ELSE 0)
        + Len(params.tickerDurations)
        + Len(params.eventChannels)
        + (IF params.rootContext # "Background" THEN 1 ELSE 0)

\* The arguments it takes to make the workplaces ids of a registry: what
\* MaxArgs bounds.
RECURSIVE SumWeight(_, _)
SumWeight(reg, ids) ==
    IF ids = {} THEN 0
    ELSE LET id == CHOOSE x \in ids : TRUE
         IN 1 + Weight(reg[id].params) + SumWeight(reg, ids \ {id})

\* ------------------------------------------------------------------- state
VARIABLES
    workplaces,           \* Director.workplaces: id -> workplace
    started,              \* Director.started
    mx,                   \* Director.mx: the thread holding it, or ""
    execWorkplacesGroup,  \* Director.execWorkplacesGroup: its counter
    syncs,                \* workplaceSyncs of each workplace: three counters
    round,                \* how many times the body of Begin has run
    launch,               \* execWorkplace goroutines: <<id, round>> -> position
    wps,                  \* the local copy `workplace` of each execWorkplace
    strand,               \* loop, ticker and event goroutines
    cascade,              \* bag of detached `go d.execWorker(&nextWp, ...)`
    closed,               \* which event channels their senders have closed
    crashed,              \* a goroutine panicked: the process is gone
    thr,                  \* the threads that call With, Begin and Wait
    ctxDone,              \* the context of Contexts is cancelled or expired
    tm                    \* a call of TimeoutMiddleware.Work and its goroutine

vars == <<workplaces, started, mx, execWorkplacesGroup, syncs, round, launch,
          wps, strand, cascade, closed, crashed, thr, ctxDone, tm>>

\* A thread: where it is, the call it made last (op) and how that call ended
\* (ret: "ok", or the error it panicked with), and the locals of the call it
\* is in: With's p, Begin's params (bp), the key and the keys left of Wait's
\* loop (cur, todo).
idleThread == [pc |-> "idle", op |-> "", ret |-> "", p |-> defaultWorkerParams,
               bp |-> <<>>, cur |-> "", todo |-> {}]

returned(op, ret) == [idleThread EXCEPT !.op = op, !.ret = ret]

\* TimeoutMiddleware.Work: where the call is (pc), its args, whether the
\* timer has fired (timer.C holds a value), where the goroutine of lines
\* 94-101 is (inner), what s.next.Work returned in it (x, err), and what
\* Work returned (ret). A nil result list is the empty one. first tells
\* which of the timer and the worker came before the other and before the end
\* of the context, ready which cases of the select could be taken when it
\* was.
idleTimeout ==
    [pc |-> "idle", ctx |-> "Background", args |-> <<>>, timer |-> FALSE,
     inner |-> "none", x |-> <<>>, err |-> "",
     ret |-> [results |-> <<>>, err |-> ""], first |-> "", ready |-> {}]

Init ==
    /\ workplaces = <<>>
    /\ started = FALSE
    /\ mx = ""
    /\ execWorkplacesGroup = 0
    /\ syncs = <<>>
    /\ round = 0
    /\ launch = <<>>
    /\ wps = <<>>
    /\ strand = <<>>
    /\ cascade = EmptyBag
    /\ closed = [ch \in Chans |-> FALSE]
    /\ crashed = FALSE
    /\ thr = [t \in Threads |->
                IF t = "t1" THEN idleThread ELSE [idleThread EXCEPT !.pc = "off"]]
    /\ ctxDone = FALSE
    /\ tm = idleTimeout

\* With without the test of d.started.
WithCall_unchecked(t) ==
    /\ ~crashed
    /\ thr[t].pc = "idle"
    /\ 1 + SumWeight(workplaces, DOMAIN workplaces) <= MaxArgs
    /\ thr' = [thr EXCEPT ![t] = [returned("With", "")
                                    EXCEPT !.pc = "with_lock"]]
    /\ UNCHANGED <<ctxDone, tm, workplaces, started, mx, execWorkplacesGroup, syncs, round,
                   launch, wps, strand, cascade, closed, crashed>>

\* -------------------------------------------------------------------- With
\* With, lines 41-43: the unlocked test of d.started.
WithCall(t) ==
    /\ ~crashed
    /\ thr[t].pc = "idle"
    /\ IF started
       THEN thr' = [thr EXCEPT ![t] = returned("With", DirectorAlreadyWorks)]
       ELSE /\ 1 + SumWeight(workplaces, DOMAIN workplaces) <= MaxArgs
            /\ thr' = [thr EXCEPT ![t] = [returned("With", "")
                                            EXCEPT !.pc = "with_lock"]]
    /\ UNCHANGED <<ctxDone, tm, workplaces, started, mx, execWorkplacesGroup, syncs, round,
                   launch, wps, strand, cascade, closed, crashed>>

\* With, lines 44-46: d.mx.Lock() and p := defaultWorkerParams().
WithLock(t) ==
    /\ ~crashed
    /\ thr[t].pc = "with_lock"
    /\ mx = ""
    /\ mx' = t
    /\ thr' = [thr EXCEPT ![t].pc = "with_params", ![t].p = defaultWorkerParams]
    /\ UNCHANGED <<ctxDone, tm, workplaces, started, execWorkplacesGroup, syncs, round,
                   launch, wps, strand, cascade, closed, crashed>>

\* The event channels that params listens to.
Listened(params) ==
    {params.eventChannels[i] : i \in DOMAIN params.eventChannels}

\* With, lines 47-49: one turn of the loop over params. The callers give an
\* event channel to one workplace, once.
WithParam(t, param) ==
    /\ ~crashed
    /\ thr[t].pc = "with_params"
    /\ param[1] = "TriggenOn" =>
          /\ param[2] \notin Listened(thr[t].p)
          /\ \A id \in DOMAIN workplaces :
                param[2] \notin Listened(workplaces[id].params)
    /\ LET p == Apply(param, thr[t].p)
       IN /\ 1 + Weight(p) + SumWeight(workplaces, DOMAIN workplaces) <= MaxArgs
          /\ thr' = [thr EXCEPT ![t].p = p]
    /\ UNCHANGED <<ctxDone, tm, workplaces, started, mx, execWorkplacesGroup, syncs, round,
                   launch, wps, strand, cascade, closed, crashed>>

\* options.idGenerator(): by default a fresh UUID, an identifier no workplace
\* has yet.
idGenerator(reg) == IDs \ DOMAIN reg

\* With, lines 50-61: the workplace is built, named, stored; the lock released.
WithInsert(t) ==
    /\ ~crashed
    /\ thr[t].pc = "with_params"
    /\ \E id \in (IF thr[t].p.id # "" THEN {thr[t].p.id}
                  ELSE idGenerator(workplaces)) :
          \* params.id is read here and nowhere after: the stored params
          \* leave it out.
          LET wp == [id |-> id, params |-> [thr[t].p EXCEPT !.id = ""]]
          IN /\ workplaces' = (id :> wp) @@ workplaces
             /\ syncs' = (id :> [loopSync |-> 0, tickerSync |-> 0,
                                 eventSync |-> 0]) @@ syncs
    /\ mx' = ""
    /\ thr' = [thr EXCEPT ![t] = returned("With", "ok")]
    /\ UNCHANGED <<ctxDone, tm, started, execWorkplacesGroup, round, launch, wps, strand,
                   cascade, closed, crashed>>

\* ------------------------------------------------------------------- Begin
\* What Begin is called with: no parameter, or one.
BeginParamLists == {<<>>} \cup {<<param>> : param \in WorkerParameter}

\* Begin, lines 66-69: the unlocked test of d.started.
BeginCall(t, params) ==
    /\ ~crashed
    /\ thr[t].pc = "idle"
    /\ IF started
       THEN /\ params = <<>>
            /\ thr' = [thr EXCEPT ![t] = returned("Begin", DirectorAlreadyWorks)]
       ELSE thr' = [thr EXCEPT ![t] = [returned("Begin", "")
                                         EXCEPT !.pc = "begin_lock",
                                                !.bp = params]]
    /\ UNCHANGED <<ctxDone, tm, workplaces, started, mx, execWorkplacesGroup, syncs, round,
                   launch, wps, strand, cascade, closed, crashed>>

\* Begin, lines 74-76: `for _, wp := range d.workplaces { param(&wp.params) }`.
\* wp is the loop's own copy of the map value (the map holds workplace
\* values, not pointers): the parameter is applied to the copy and the copy is
\* dropped at the end of the turn.
RangeWorkplaces(param, reg) ==
    LET wp == [id \in DOMAIN reg |->
                 [reg[id] EXCEPT !.params = Apply(param, reg[id].params)]]
    IN reg

\* Begin, lines 73-77: the loop over params.
RECURSIVE RangeParams(_, _)
RangeParams(params, reg) ==
    IF params = <<>> THEN reg
    ELSE RangeParams(Tail(params), RangeWorkplaces(Head(params), reg))

\* Begin, lines 70-81: under the lock, started is set, the parameters are
\* ranged over, and one execWorkplace goroutine per workplace is started.
BeginLock(t) ==
    /\ ~crashed
    /\ thr[t].pc = "begin_lock"
    /\ mx = ""
    /\ mx' = t
    /\ started' = TRUE
    /\ workplaces' = RangeParams(thr[t].bp, workplaces)
    /\ execWorkplacesGroup' = execWorkplacesGroup + Cardinality(DOMAIN workplaces')
    /\ round' = round + 1
    /\ launch' = [k \in {<<id, round'>> : id \in DOMAIN workplaces'} |-> "loop"]
                    @@ launch
    /\ thr' = [thr EXCEPT ![t].pc = "begin_wait", ![t].bp = <<>>]
    /\ UNCHANGED <<ctxDone, tm, syncs, wps, strand, cascade, closed, crashed>>

\* Begin that also waits for the strands: returns when every completion
\* counter is zero.
BeginReturn_afterStrands(t) ==
    /\ ~crashed
    /\ thr[t].pc = "begin_wait"
    /\ execWorkplacesGroup = 0
    /\ \A id \in DOMAIN syncs :
          syncs[id] = [loopSync |-> 0, tickerSync |-> 0, eventSync |-> 0]
    /\ mx' = ""
    /\ thr' = [thr EXCEPT ![t] = returned("Begin", "ok")]
    /\ UNCHANGED <<ctxDone, tm, workplaces, started, execWorkplacesGroup, syncs, round,
                   launch, wps, strand, cascade, closed, crashed>>

\* Begin, line 82 and the deferred Unlock: d.execWorkplacesGroup.Wait().
BeginReturn(t) ==
    /\ ~crashed
    /\ thr[t].pc = "begin_wait"
    /\ execWorkplacesGroup = 0
    /\ mx' = ""
    /\ thr' = [thr EXCEPT ![t] = returned("Begin", "ok")]
    /\ UNCHANGED <<ctxDone, tm, workplaces, started, execWorkplacesGroup, syncs, round,
                   launch, wps, strand, cascade, closed, crashed>>

\* -------------------------------------------------------------------- Wait
\* Wait, line 91: the next key of `for k := range d.workplaces`, or the return.
WaitStep(t, todo) ==
    IF todo = {}
    THEN thr' = [thr EXCEPT ![t] = returned("Wait", "ok")]
    ELSE \E k \in todo :
            thr' = [thr EXCEPT ![t] = [returned("Wait", "")
                                         EXCEPT !.pc = "wait_loop", !.cur = k,
                                                !.todo = todo \ {k}]]

\* Wait, lines 87-91: the test of d.started and the first key.
WaitCall(t) ==
    /\ ~crashed
    /\ thr[t].pc = "idle"
    /\ IF ~started
       THEN thr' = [thr EXCEPT ![t] = returned("Wait", DirectorNotWorks)]
       ELSE WaitStep(t, DOMAIN workplaces)
    /\ UNCHANGED <<ctxDone, tm, workplaces, started, mx, execWorkplacesGroup, syncs, round,
                   launch, wps, strand, cascade, closed, crashed>>

\* s.loopSync.Wait() that would also wait for the detached invocations.
WaitLoopSync_cascade(t) ==
    /\ ~crashed
    /\ thr[t].pc = "wait_loop"
    /\ syncs[thr[t].cur].loopSync = 0
    /\ cascade = EmptyBag
    /\ thr' = [thr EXCEPT ![t].pc = "wait_ticker"]
    /\ UNCHANGED <<ctxDone, tm, workplaces, started, mx, execWorkplacesGroup, syncs, round,
                   launch, wps, strand, cascade, closed, crashed>>

\* workplaceSyncs.Wait, line 19: s.loopSync.Wait().
WaitLoopSync(t) ==
    /\ ~crashed
    /\ thr[t].pc = "wait_loop"
    /\ syncs[thr[t].cur].loopSync = 0
    /\ thr' = [thr EXCEPT ![t].pc = "wait_ticker"]
    /\ UNCHANGED <<ctxDone, tm, workplaces, started, mx, execWorkplacesGroup, syncs, round,
                   launch, wps, strand, cascade, closed, crashed>>

\* workplaceSyncs.Wait, line 20: s.tickerSync.Wait().
WaitTickerSync(t) ==
    /\ ~crashed
    /\ thr[t].pc = "wait_ticker"
    /\ syncs[thr[t].cur].tickerSync = 0
    /\ thr' = [thr EXCEPT ![t].pc = "wait_event"]
    /\ UNCHANGED <<ctxDone, tm, workplaces, started, mx, execWorkplacesGroup, syncs, round,
                   launch, wps, strand, cascade, closed, crashed>>

\* Mutant of WaitEventSync: workplaceSyncs.Wait without s.eventSync.Wait().
WaitEventSync_skipped(t) ==
    /\ ~crashed
    /\ thr[t].pc = "wait_event"
    /\ WaitStep(t, thr[t].todo)
    /\ UNCHANGED <<ctxDone, tm, workplaces, started, mx, execWorkplacesGroup, syncs, round,
                   launch, wps, strand, cascade, closed, crashed>>

\* workplaceSyncs.Wait, line 21: s.eventSync.Wait(); then the next key of
\* Wait's loop, or its return.
WaitEventSync(t) ==
    /\ ~crashed
    /\ thr[t].pc = "wait_event"
    /\ syncs[thr[t].cur].eventSync = 0
    /\ WaitStep(t, thr[t].todo)
    /\ UNCHANGED <<ctxDone, tm, workplaces, started, mx, execWorkplacesGroup, syncs, round,
                   launch, wps, strand, cascade, closed, crashed>>

\* ----------------------------------------------------------- execWorkplace
\* uint(max), cut to the width TLC's integers hold; the max of an
\* infinite controller is never read (check tests inf first).
uint(x) == x % (2 ^ 30)

newLoopController(max) == [max |-> uint(max), n |-> 0, inf |-> max < 0]

\* Mutant of check: the bound is compared with <= (one turn too many).
check_inclusive(c) == c.inf \/ c.n <= c.max

check(c) == c.inf \/ c.n < c.max

inc(c) == IF ~c.inf THEN [c EXCEPT !.n = (@ + 1) % (2 ^ 30)] ELSE c

\* A goroutine of a workplace: where it is, its local args, its loop
\* controller, the results it holds while it sends an error, and what it
\* remembers for the properties: calls, the number of Work calls it made;
\* failed, whether one of them returned an error; cur, the argument list of
\* the call it is in; last, the results of the latest call that returned, as
\* far as the strand keeps results (a loop or ticker strand, while it runs);
\* got, the events it received (while it runs); good, in a loop strand, the
\* firstArgs and then the results of the latest call that returned no error.
newStrand(args) ==
    [pc |-> "wait", args |-> args, i |-> newLoopController(0), res |-> <<>>,
     calls |-> 0, failed |-> FALSE, cur |-> <<>>, last |-> <<>>, got |-> <<>>,
     good |-> <<>>]

\* execWorkplace, lines 100-102: the copy of the workplace, loopSync.Add(1),
\* and the loop goroutine, which starts at the test of its controller.
LaunchLoop(k) ==
    /\ ~crashed
    /\ k \in DOMAIN launch
    /\ launch[k] = "loop"
    /\ LET workplace == workplaces[k[1]]
       IN /\ wps' = (k :> workplace) @@ wps
          /\ syncs' = [syncs EXCEPT ![k[1]].loopSync = @ + 1]
          /\ strand' = (<<k[1], "loop", 0, k[2]>> :>
                          [newStrand(workplace.params.firstArgs)
                              EXCEPT !.pc = "check",
                                     !.good = workplace.params.firstArgs,
                                     !.i = newLoopController(
                                            workplace.params.amountOfExecutions)])
                          @@ strand
    /\ launch' = [launch EXCEPT ![k] = "tickers"]
    /\ UNCHANGED <<ctxDone, tm, workplaces, started, mx, execWorkplacesGroup, round,
                   cascade, closed, crashed, thr>>

\* execWorkerTickers, lines 130-135.
execWorkerTickers(k) ==
    /\ ~crashed
    /\ k \in DOMAIN launch
    /\ launch[k] = "tickers"
    /\ LET wp == wps[k]
           durs == DOMAIN wp.params.tickerDurations
       IN /\ syncs' = [syncs EXCEPT ![k[1]].tickerSync = @ + Cardinality(durs)]
          /\ strand' = [s \in {<<k[1], "tick", i, k[2]>> : i \in durs} |->
                          newStrand(wp.params.firstArgs)] @@ strand
    /\ launch' = [launch EXCEPT ![k] = "events"]
    /\ UNCHANGED <<ctxDone, tm, workplaces, started, mx, execWorkplacesGroup, round, wps,
                   cascade, closed, crashed, thr>>

\* listenEventChannels, lines 185-190, and the deferred
\* execWorkplacesGroup.Done() of execWorkplace.
listenEventChannels(k) ==
    /\ ~crashed
    /\ k \in DOMAIN launch
    /\ launch[k] = "events"
    /\ LET wp == wps[k]
           chans == DOMAIN wp.params.eventChannels
       IN /\ syncs' = [syncs EXCEPT ![k[1]].eventSync = @ + Cardinality(chans)]
          /\ strand' = [s \in {<<k[1], "event", i, k[2]>> : i \in chans} |->
                          newStrand(<<>>)] @@ strand
    /\ launch' = [launch EXCEPT ![k] = "done"]
    /\ execWorkplacesGroup' = execWorkplacesGroup - 1
    /\ UNCHANGED <<ctxDone, tm, workplaces, started, mx, round, wps, cascade, closed,
                   crashed, thr>>

\* -------------------------------------------------------------- execWorker
\* execWorker, lines 160-164: what Work is called with.
workArgs(args) == IF Len(args) = 0 THEN <<>> ELSE args

\* Mutant of execWorkerVerdict: stopOnError is not looked at.
execWorkerVerdict_neverStops(params, failed) ==
    IF failed /\ params.panicOnError THEN "panic" ELSE "next"

\* execWorker that stops on every error, ignored or not.
execWorkerVerdict_stopsAlways(params, failed) ==
    IF failed /\ params.panicOnError THEN "panic"
    ELSE IF failed THEN "stop"
    ELSE "next"

\* execWorker, lines 165-175 after the notification: what a failure leads to.
execWorkerVerdict(params, failed) ==
    IF failed /\ params.panicOnError THEN "panic"
    ELSE IF failed /\ params.stopOnError THEN "stop"
    ELSE "next"

\* Mutant of nextInvocations: the next workers are started without the
\* results (`go d.execWorker(&nextWp)`).
RECURSIVE nextInvocations_noResults(_, _, _)
nextInvocations_noResults(nextWorkers, results, reg) ==
    IF nextWorkers = <<>> THEN EmptyBag
    ELSE LET id == Head(nextWorkers)
             rest == nextInvocations_noResults(Tail(nextWorkers), results, reg)
         IN IF id \in DOMAIN reg
            THEN SetToBag({[wp |-> reg[id], args |-> <<>>, pc |-> "work",
                            res |-> <<>>]}) (+) rest
            ELSE rest

\* execWorker, lines 176-181: one `go d.execWorker(&nextWp, results...)` for
\* every id of nextWorkers that the registry holds.
RECURSIVE nextInvocations(_, _, _)
nextInvocations(nextWorkers, results, reg) ==
    IF nextWorkers = <<>> THEN EmptyBag
    ELSE LET id == Head(nextWorkers)
             rest == nextInvocations(Tail(nextWorkers), results, reg)
         IN IF id \in DOMAIN reg
            THEN SetToBag({[wp |-> reg[id], args |-> results, pc |-> "work",
                            res |-> <<>>]}) (+) rest
            ELSE rest

strandWp(s) == wps[<<s[1], s[4]>>]

\* The deferred Done() of the strand's completion counter.
strandDone(s) ==
    CASE s[2] = "loop" -> [syncs EXCEPT ![s[1]].loopSync = @ - 1]
      [] s[2] = "tick" -> [syncs EXCEPT ![s[1]].tickerSync = @ - 1]
      [] s[2] = "event" -> [syncs EXCEPT ![s[1]].eventSync = @ - 1]

\* strandExit that ends every strand of the workplace with s.
strandExit_workplace(s) ==
    [k \in DOMAIN strand |->
        IF k[1] = s[1] /\ k[4] = s[4]
        THEN [newStrand(<<>>) EXCEPT !.pc = "done",
                                     !.calls = strand[k].calls,
                                     !.failed = strand[k].failed]
        ELSE strand[k]]

\* The strands after strand s has returned: its locals are gone.
strandExit(s) ==
    [strand EXCEPT ![s] = [newStrand(<<>>) EXCEPT !.pc = "done",
                                                  !.calls = strand[s].calls,
                                                  !.failed = strand[s].failed]]

\* strandContinue of a loop that drops the results and keeps its args.
strandContinue_keepsArgs(s, results) ==
    CASE s[2] = "loop" ->
            IF strandWp(s).params.delayFunc
            THEN [strand[s] EXCEPT !.pc = "delay", !.res = <<>>, !.cur = <<>>,
                                   !.last = results]
            ELSE [strand[s] EXCEPT !.pc = "check", !.res = <<>>, !.cur = <<>>,
                                   !.last = results, !.i = inc(@)]
      [] s[2] = "tick" ->
            [strand[s] EXCEPT !.pc = "wait", !.args = results, !.res = <<>>,
                              !.cur = <<>>, !.last = results]
      [] s[2] = "event" ->
            [strand[s] EXCEPT !.pc = "wait", !.args = <<>>, !.res = <<>>,
                              !.cur = <<>>]

\* The strand after execWorker returned (results, true): the loop keeps the
\* results as its args and goes to its delay or to i.inc() (lines 119-126),
\* the ticker keeps the results as its args (line 146), the listener keeps
\* nothing (line 196).
strandContinue(s, results) ==
    CASE s[2] = "loop" ->
            IF strandWp(s).params.delayFunc
            THEN [strand[s] EXCEPT !.pc = "delay", !.args = results,
                                   !.res = <<>>, !.cur = <<>>,
                                   !.last = results]
            ELSE [strand[s] EXCEPT !.pc = "check", !.args = results,
                                   !.res = <<>>, !.cur = <<>>,
                                   !.last = results, !.i = inc(@)]
      [] s[2] = "tick" ->
            [strand[s] EXCEPT !.pc = "wait", !.args = results, !.res = <<>>,
                              !.cur = <<>>, !.last = results]
      [] s[2] = "event" ->
            [strand[s] EXCEPT !.pc = "wait", !.args = <<>>, !.res = <<>>,
                              !.cur = <<>>]

\* execWorker, lines 169-182, in strand s, and what the strand does with the
\* (results, ok) it gets back.
Settle(s, results, failed) ==
    LET params == strandWp(s).params
        verdict == execWorkerVerdict(params, failed)
    IN CASE verdict = "panic" ->
              /\ crashed' = TRUE
              /\ strand' = [strand EXCEPT ![s].failed = TRUE]
              /\ UNCHANGED <<syncs, cascade>>
         [] verdict = "stop" ->
              /\ strand' = [strandExit(s) EXCEPT ![s].failed = TRUE]
              /\ syncs' = strandDone(s)
              /\ UNCHANGED <<cascade, crashed>>
         [] verdict = "next" ->
              /\ cascade' = cascade (+)
                    nextInvocations(params.nextWorkers, results, workplaces)
              /\ BagCardinality(cascade') <= MaxCascade
              /\ strand' = [strand EXCEPT ![s] =
                    [strandContinue(s, results)
                        EXCEPT !.failed = @ \/ failed,
                               !.good = IF failed \/ s[2] # "loop"
                                        THEN @ ELSE results]]
              /\ UNCHANGED <<syncs, crashed>>

\* The strand calls execWorker: Work is entered with the given args.
strandCall(s, args) ==
    [strand EXCEPT ![s].pc = "work", ![s].calls = @ + 1,
                   ![s].cur = workArgs(args)]

\* execWorkerLoop, line 118: i.check(), then either the call of line 119 or
\* the end of the loop and the deferred loopSync.Done().
LoopCheck(s) ==
    /\ ~crashed
    /\ s \in DOMAIN strand
    /\ s[2] = "loop"
    /\ strand[s].pc = "check"
    /\ IF check(strand[s].i)
       THEN /\ strand[s].i.inf => strand[s].calls < MaxCalls
            /\ strand' = strandCall(s, strand[s].args)
            /\ UNCHANGED syncs
       ELSE /\ strand' = strandExit(s)
            /\ syncs' = strandDone(s)
    /\ UNCHANGED <<ctxDone, tm, workplaces, started, mx, execWorkplacesGroup, round, launch,
                   wps, cascade, closed, crashed, thr>>

\* execWorkerLoop, lines 123-126 and i.inc(): the timer fires.
LoopDelay(s) ==
    /\ ~crashed
    /\ s \in DOMAIN strand
    /\ strand[s].pc = "delay"
    /\ strand' = [strand EXCEPT ![s].pc = "check", ![s].i = inc(@)]
    /\ UNCHANGED <<ctxDone, tm, workplaces, started, mx, execWorkplacesGroup, syncs, round,
                   launch, wps, cascade, closed, crashed, thr>>

\* A tick that starts from the firstArgs every time.
Tick_firstArgs(s) ==
    /\ ~crashed
    /\ s \in DOMAIN strand
    /\ s[2] = "tick"
    /\ strand[s].pc = "wait"
    /\ strand[s].calls < MaxCalls
    /\ strand' = strandCall(s, strandWp(s).params.firstArgs)
    /\ UNCHANGED <<ctxDone, tm, workplaces, started, mx, execWorkplacesGroup, syncs, round,
                   launch, wps, cascade, closed, crashed, thr>>

\* execWorkerWithTicker, lines 145-146: a tick arrives.
Tick(s) ==
    /\ ~crashed
    /\ s \in DOMAIN strand
    /\ s[2] = "tick"
    /\ strand[s].pc = "wait"
    /\ strand[s].calls < MaxCalls
    /\ strand' = strandCall(s, strand[s].args)
    /\ UNCHANGED <<ctxDone, tm, workplaces, started, mx, execWorkplacesGroup, syncs, round,
                   launch, wps, cascade, closed, crashed, thr>>

strandChan(s) == strandWp(s).params.eventChannels[s[3]]

\* eventArgs with the event dropped: the call of line 196 without event.
eventArgs_none(event) == <<>>

\* listenChannel, line 196: the argument list made of the received event.
eventArgs(event) == <<event>>

\* listenChannel, lines 195-196: an event is received from the channel.
Receive(s, event) ==
    /\ ~crashed
    /\ s \in DOMAIN strand
    /\ s[2] = "event"
    /\ strand[s].pc = "wait"
    /\ ~closed[strandChan(s)]
    /\ strand[s].calls < MaxCalls
    /\ strand' = [strandCall(s, eventArgs(event))
                    EXCEPT ![s].got = Append(@, event),
                           ![s].args = eventArgs(event)]
    /\ UNCHANGED <<ctxDone, tm, workplaces, started, mx, execWorkplacesGroup, syncs, round,
                   launch, wps, cascade, closed, crashed, thr>>

\* listenChannel, line 195 on a closed channel: the range ends, and the
\* deferred eventSync.Done().
ChannelClosed(s) ==
    /\ ~crashed
    /\ s \in DOMAIN strand
    /\ s[2] = "event"
    /\ strand[s].pc = "wait"
    /\ closed[strandChan(s)]
    /\ strand' = strandExit(s)
    /\ syncs' = strandDone(s)
    /\ UNCHANGED <<ctxDone, tm, workplaces, started, mx, execWorkplacesGroup, round, launch,
                   wps, cascade, closed, crashed, thr>>

\* The sender of an event channel closes it, at any time after a listener
\* of the channel has been started.
CloseChannel(ch) ==
    /\ ~crashed
    /\ ~closed[ch]
    /\ \E s \in DOMAIN strand : s[2] = "event" /\ strandChan(s) = ch
    /\ closed' = [closed EXCEPT ![ch] = TRUE]
    /\ UNCHANGED <<ctxDone, tm, workplaces, started, mx, execWorkplacesGroup, syncs, round,
                   launch, wps, strand, cascade, crashed, thr>>

\* execWorker that does not send the error: it goes on to its decision.
WorkReturn_noSend(s, results, failed) ==
    /\ ~crashed
    /\ s \in DOMAIN strand
    /\ strand[s].pc = "work"
    /\ Settle(s, results, failed)
    /\ UNCHANGED <<ctxDone, tm, workplaces, started, mx, execWorkplacesGroup,
                   round, launch, wps, closed, thr>>

\* execWorker, lines 161-168: Work returns (results, err) in strand s; on an
\* error with notifyOnError the strand is in the send of line 167.
WorkReturn(s, results, failed) ==
    /\ ~crashed
    /\ s \in DOMAIN strand
    /\ strand[s].pc = "work"
    /\ IF failed /\ strandWp(s).params.notifyOnError
       THEN /\ strand' = [strand EXCEPT ![s].pc = "notify", ![s].res = results,
                                        ![s].failed = TRUE]
            /\ UNCHANGED <<syncs, cascade, crashed>>
       ELSE Settle(s, results, failed)
    /\ UNCHANGED <<ctxDone, tm, workplaces, started, mx, execWorkplacesGroup, round, launch,
                   wps, closed, thr>>

\* execWorker, line 167: the error is received from the notify channel.
NotifyReceived(s) ==
    /\ ~crashed
    /\ s \in DOMAIN strand
    /\ strand[s].pc = "notify"
    /\ Settle(s, strand[s].res, TRUE)
    /\ UNCHANGED <<ctxDone, tm, workplaces, started, mx, execWorkplacesGroup, round, launch,
                   wps, closed, thr>>

\* execWorker, lines 169-182, in a detached goroutine c, whose results
\* nobody reads.
SettleDetached(c, results, failed) ==
    LET verdict == execWorkerVerdict(c.wp.params, failed)
        rest == cascade (-) SetToBag({c})
    IN CASE verdict = "panic" ->
              /\ crashed' = TRUE
              /\ UNCHANGED cascade
         [] verdict = "stop" ->
              /\ cascade' = rest
              /\ UNCHANGED crashed
         [] verdict = "next" ->
              /\ cascade' = rest (+)
                    nextInvocations(c.wp.params.nextWorkers, results, workplaces)
              /\ BagCardinality(cascade') <= MaxCascade
              /\ UNCHANGED crashed

\* execWorker, lines 161-168, in a detached goroutine.
DetachedReturn(c, results, failed) ==
    /\ ~crashed
    /\ BagIn(c, cascade)
    /\ c.pc = "work"
    /\ IF failed /\ c.wp.params.notifyOnError
       THEN /\ cascade' = (cascade (-) SetToBag({c}))
                            (+) SetToBag({[c EXCEPT !.pc = "notify",
                                                     !.res = results]})
            /\ UNCHANGED crashed
       ELSE SettleDetached(c, results, failed)
    /\ UNCHANGED <<ctxDone, tm, workplaces, started, mx, execWorkplacesGroup, syncs, round,
                   launch, wps, strand, closed, thr>>

\* execWorker, line 167, in a detached goroutine.
DetachedNotifyReceived(c) ==
    /\ ~crashed
    /\ BagIn(c, cascade)
    /\ c.pc = "notify"
    /\ SettleDetached(c, c.res, TRUE)
    /\ UNCHANGED <<ctxDone, tm, workplaces, started, mx, execWorkplacesGroup, syncs, round,
                   launch, wps, strand, closed, thr>>

\* ----------------------------------------------------------- specification
Next ==
    \/ \E t \in Threads : WithCall(t)
    \/ \E t \in Threads : WithLock(t)
    \/ \E t \in Threads, param \in WorkerParameter : WithParam(t, param)
    \/ \E t \in Threads : WithInsert(t)
    \/ \E t \in Threads, params \in BeginParamLists : BeginCall(t, params)
    \/ \E t \in Threads : BeginLock(t)
    \/ \E t \in Threads : BeginReturn(t)
    \/ \E t \in Threads : WaitCall(t)
    \/ \E t \in Threads : WaitLoopSync(t)
    \/ \E t \in Threads : WaitTickerSync(t)
    \/ \E t \in Threads : WaitEventSync(t)
    \/ \E k \in DOMAIN launch : LaunchLoop(k)
    \/ \E k \in DOMAIN launch : execWorkerTickers(k)
    \/ \E k \in DOMAIN launch : listenEventChannels(k)
    \/ \E s \in DOMAIN strand : LoopCheck(s)
    \/ \E s \in DOMAIN strand : LoopDelay(s)
    \/ \E s \in DOMAIN strand : Tick(s)
    \/ \E s \in DOMAIN strand, event \in Events : Receive(s, event)
    \/ \E s \in DOMAIN strand : ChannelClosed(s)
    \/ \E ch \in Chans : CloseChannel(ch)
    \/ \E s \in DOMAIN strand, results \in ArgLists, failed \in BOOLEAN :
          WorkReturn(s, results, failed)
    \/ \E s \in DOMAIN strand : NotifyReceived(s)
    \/ \E c \in BagToSet(cascade), results \in ArgLists, failed \in BOOLEAN :
          DetachedReturn(c, results, failed)
    \/ \E c \in BagToSet(cascade) : DetachedNotifyReceived(c)

Spec == Init /\ [][Next]_vars

\* The context given with WithContext is cancelled or expires: at any time
\* once a workplace that has it is registered, or a call of
\* TimeoutMiddleware.Work has it.
CancelContext ==
    /\ ~crashed
    /\ ~ctxDone
    /\ \/ \E id \in DOMAIN workplaces :
             workplaces[id].params.rootContext \in Contexts
       \/ tm.pc # "idle"
    /\ ctxDone' = TRUE
    /\ UNCHANGED <<tm, workplaces, started, mx, execWorkplacesGroup, syncs,
                   round, launch, wps, strand, cascade, closed, crashed, thr>>

\* The director called by two threads at once.
ConcInit ==
    /\ Init!1 /\ Init!2 /\ Init!3 /\ Init!4 /\ Init!5 /\ Init!6 /\ Init!7
    /\ Init!8 /\ Init!9 /\ Init!10 /\ Init!11 /\ Init!12
    /\ thr = [t \in Threads |-> idleThread]
    /\ ctxDone = FALSE
    /\ tm = idleTimeout

\* The parameters given to With in ConcSpec.
ConcParameter == {<<"Repeat", 1>>}

\* The director as two threads call it at any time: With with a parameter of
\* ConcParameter, Begin without parameters, Wait; the workplaces have loop
\* strands only, and their workers return no results and no error.
ConcNext ==
    \/ \E t \in Threads : WithCall(t)
    \/ \E t \in Threads : WithLock(t)
    \/ \E t \in Threads, param \in ConcParameter : WithParam(t, param)
    \/ \E t \in Threads : WithInsert(t)
    \/ \E t \in Threads : BeginCall(t, <<>>)
    \/ \E t \in Threads : BeginLock(t)
    \/ \E t \in Threads : BeginReturn(t)
    \/ \E t \in Threads : WaitCall(t)
    \/ \E t \in Threads : WaitLoopSync(t)
    \/ \E t \in Threads : WaitTickerSync(t)
    \/ \E t \in Threads : WaitEventSync(t)
    \/ \E k \in DOMAIN launch : LaunchLoop(k)
    \/ \E k \in DOMAIN launch : execWorkerTickers(k)
    \/ \E k \in DOMAIN launch : listenEventChannels(k)
    \/ \E s \in DOMAIN strand : LoopCheck(s)
    \/ \E s \in DOMAIN strand : WorkReturn(s, <<>>, FALSE)

ConcSpec == ConcInit /\ [][ConcNext]_vars

\* ------------------------------------------------------- TimeoutMiddleware
director == <<workplaces, started, mx, execWorkplacesGroup, syncs, round,
              launch, wps, strand, cascade, closed, crashed, thr>>

\* Whether `<-ctx.Done()` can be received: never for context.Background().
ctxReady == tm.ctx \in Contexts /\ ctxDone

\* The cases of the select of lines 102-116 that can be taken.
readyCases ==
    (IF ctxReady THEN {"ctx"} ELSE {})
        \cup (IF tm.timer THEN {"timer"} ELSE {})
        \cup (IF tm.inner = "send" /\ tm.err = "" THEN {"result"} ELSE {})
        \cup (IF tm.inner = "send" /\ tm.err # "" THEN {"e"} ELSE {})

\* TimeoutMiddleware.Work, lines 89-101: the timer, the two channels and the
\* goroutine that calls s.next.Work(ctx, args...).
TimeoutWork(ctx, args) ==
    /\ tm.pc = "idle"
    /\ tm' = [idleTimeout EXCEPT !.pc = "select", !.ctx = ctx, !.args = args,
                                 !.inner = "work"]
    /\ UNCHANGED <<ctxDone, director>>

\* time.NewTimer, line 90: the duration has elapsed, timer.C holds a value.
\* After Work has returned the timer is stopped (line 91).
TimerFires ==
    /\ tm.pc = "select"
    /\ ~tm.timer
    /\ tm' = [tm EXCEPT !.timer = TRUE,
                        !.first = IF tm.inner = "work" /\ ~ctxReady
                                  THEN "timer" ELSE @]
    /\ UNCHANGED <<ctxDone, director>>

\* The goroutine with buffered channels: its send needs no receiver.
NextWork_buffered(x, failed) ==
    /\ tm.inner = "work"
    /\ tm' = [tm EXCEPT !.inner = IF tm.pc = "returned" THEN "done" ELSE "send",
                        !.x = x,
                        !.err = IF failed THEN WorkerError ELSE "",
                        !.first = IF tm.pc = "select" /\ ~tm.timer /\ ~ctxReady
                                  THEN "worker" ELSE @]
    /\ UNCHANGED <<ctxDone, director>>

\* The goroutine, lines 95-100: s.next.Work returns (x, err) and the goroutine
\* stands at its send on e or on result, both unbuffered.
NextWork(x, failed) ==
    /\ tm.inner = "work"
    /\ tm' = [tm EXCEPT !.inner = "send", !.x = x,
                        !.err = IF failed THEN WorkerError ELSE "",
                        !.first = IF tm.pc = "select" /\ ~tm.timer /\ ~ctxReady
                                  THEN "worker" ELSE @]
    /\ UNCHANGED <<ctxDone, director>>

\* Work returns (results, err) from its select.
selected(results, err) ==
    [tm EXCEPT !.pc = "returned", !.ret = [results |-> results, err |-> err],
               !.ready = readyCases]

\* select, lines 103-104: case <-ctx.Done().
SelectDone ==
    /\ tm.pc = "select"
    /\ ctxReady
    /\ tm' = selected(<<>>, ContextError)
    /\ UNCHANGED <<ctxDone, director>>

\* The timer case taken whether or not the timer has fired.
SelectTimer_unfired ==
    /\ tm.pc = "select"
    /\ tm' = selected(<<>>, TimeoutError)
    /\ UNCHANGED <<ctxDone, director>>

\* select, lines 105-106: case <-timer.C.
SelectTimer ==
    /\ tm.pc = "select"
    /\ tm.timer
    /\ tm' = selected(<<>>, TimeoutError)
    /\ UNCHANGED <<ctxDone, director>>

\* select, lines 107-110: case r := <-result, which lets the goroutine go.
SelectResult ==
    /\ tm.pc = "select"
    /\ tm.inner = "send" /\ tm.err = ""
    /\ tm' = [selected(tm.x, "") EXCEPT !.inner = "done"]
    /\ UNCHANGED <<ctxDone, director>>

\* select, lines 111-115: case err := <-e, which lets the goroutine go.
SelectErr ==
    /\ tm.pc = "select"
    /\ tm.inner = "send" /\ tm.err # ""
    /\ tm' = [selected(<<>>, tm.err) EXCEPT !.inner = "done"]
    /\ UNCHANGED <<ctxDone, director>>

TimeoutNext ==
    \/ \E ctx \in Contexts \cup {"Background"}, args \in ArgLists :
          TimeoutWork(ctx, args)
    \/ TimerFires
    \/ \E x \in ArgLists, failed \in BOOLEAN : NextWork(x, failed)
    \/ SelectDone
    \/ SelectTimer
    \/ SelectResult
    \/ SelectErr
    \/ CancelContext

TimeoutSpec == Init /\ [][TimeoutNext]_vars

\* The director with workplaces that are given a context.
CtxNext ==
    \/ Next
    \/ \E t \in Threads, param \in ContextParameter : WithParam(t, param)
    \/ CancelContext

CtxSpec == Init /\ [][CtxNext]_vars

\* The steps of Begin and of the execWorkplace goroutines it waits for. None
\* of them waits for a worker, a tick, an event or a receiver: the scheduler
\* runs them.
BeginProgress ==
    \/ \E t \in Threads : BeginLock(t) \/ BeginReturn(t)
    \/ \E k \in DOMAIN launch :
          LaunchLoop(k) \/ execWorkerTickers(k) \/ listenEventChannels(k)

\* Spec with the scheduler's fairness to Begin and its launchers, and none to
\* anything else: a worker may never return, a tick or an event never come.
FairSpec == Spec /\ WF_vars(BeginProgress)

\* ================================================================== claims
launched(id) == <<id, round>> \in DOMAIN launch /\ launch[<<id, round>>] = "done"

\* Every strand of every registered workplace has been started and has
\* returned, and every completion counter is zero.
AllExited ==
    /\ \A id \in DOMAIN workplaces :
          /\ launched(id)
          /\ syncs[id] = [loopSync |-> 0, tickerSync |-> 0, eventSync |-> 0]
    /\ \A s \in DOMAIN strand : strand[s].pc = "done"

\* C1: a Wait called after Begin has returned returns only when every loop,
\* ticker and event strand of every workplace has exited and all three
\* completion counters of every workplace are zero.
C1_WaitReturnsAfterAllExited ==
    [][\A t \in Threads :
          (thr[t].pc = "wait_event" /\ thr'[t].pc = "idle") => AllExited']_vars

\* C1 witness: Wait has returned on a director whose strands made calls.
C1_Witness ==
    /\ thr["t1"].op = "Wait" /\ thr["t1"].ret = "ok"
    /\ \E s \in DOMAIN strand : s[2] = "event" /\ strand[s].calls > 0
    /\ \E s \in DOMAIN strand : s[2] = "loop" /\ strand[s].calls > 0

LoopStrands == {s \in DOMAIN strand : s[2] = "loop"}
TickerStrands == {s \in DOMAIN strand : s[2] = "tick"}
EventStrands == {s \in DOMAIN strand : s[2] = "event"}

\* C2: the loop strand of a workplace with Repeat(n), n >= 0, never makes
\* more than n calls; when it exits without a failed call it has made exactly
\* n (none for the default 0); and once exited it makes no call.
C2_RepeatRunsExactlyN ==
    /\ [](\A s \in LoopStrands :
            LET n == strandWp(s).params.amountOfExecutions
            IN n >= 0 =>
                 /\ strand[s].calls <= n
                 /\ (strand[s].pc = "done" /\ ~strand[s].failed)
                        => strand[s].calls = n)
    /\ [][\A s \in LoopStrands :
            strand[s].pc = "done" => strand'[s] = strand[s]]_vars

\* C2 witness: a loop strand with Repeat(MaxRepeat) has exited after
\* MaxRepeat successful calls, next to one that exited after none.
C2_Witness ==
    /\ \E s \in LoopStrands :
          /\ strandWp(s).params.amountOfExecutions = MaxRepeat
          /\ ~strandWp(s).params.delayFunc
          /\ strand[s].pc = "done" /\ ~strand[s].failed
          /\ strand[s].calls = MaxRepeat
    /\ \E s \in LoopStrands :
          /\ strandWp(s).params.amountOfExecutions = 0
          /\ strand[s].pc = "done" /\ strand[s].calls = 0

\* C3: the loop strand of a workplace with Infinitely() and stopOnError
\* (and no PanicOnError) does not exit while its calls succeed, and its first
\* failed call is its last: from then on it makes no call, and it is exited
\* or still in the send of the error to the notify channel.
C3_InfiniteStopsAtFirstFailure ==
    /\ [](\A s \in LoopStrands :
            LET params == strandWp(s).params
            IN (params.amountOfExecutions < 0 /\ params.stopOnError
                  /\ ~params.panicOnError) =>
                 /\ strand[s].pc = "done" => strand[s].failed
                 /\ strand[s].failed => strand[s].pc \in {"notify", "done"}
                 /\ (strand[s].failed /\ ~params.notifyOnError)
                        => strand[s].pc = "done")
    /\ [][\A s \in LoopStrands :
            (strandWp(s).params.stopOnError /\ strand[s].failed)
                => strand'[s].calls = strand[s].calls]_vars

\* C3 witness: an infinite loop strand has exited on the failure of its
\* second call.
C3_Witness ==
    \E s \in LoopStrands :
        /\ strandWp(s).params.amountOfExecutions < 0
        /\ strandWp(s).params.stopOnError
        /\ ~strandWp(s).params.panicOnError
        /\ strand[s].pc = "done" /\ strand[s].failed /\ strand[s].calls = 2

\* How often id stands in a list of next workers.
Mentions(nextWorkers, id) ==
    Cardinality({i \in DOMAIN nextWorkers : nextWorkers[i] = id})

\* A detached call of the worker of workplace id with the arguments args,
\* as it starts.
DetachedCall(id, args) ==
    [wp |-> workplaces[id], args |-> args, pc |-> "work", res |-> <<>>]

\* Bag after is bag before plus, for every registered id, as many detached
\* calls of id with the arguments r as nextWorkers mentions id, and nothing
\* else.
AddsOnePerMention(before, after, nextWorkers, r) ==
    /\ \A id \in DOMAIN workplaces :
          CopiesIn(DetachedCall(id, r), after)
              = CopiesIn(DetachedCall(id, r), before) + Mentions(nextWorkers, id)
    /\ \A e \in BagToSet(after) \cup BagToSet(before) :
          (\A id \in DOMAIN workplaces : e # DetachedCall(id, r))
              => CopiesIn(e, after) = CopiesIn(e, before)

\* C4: when a call made by a strand of workplace A returns results r without
\* error, exactly one detached call with the arguments r is started for every
\* mention of a registered workplace in A's nextWorkers, none for an id that
\* is not registered, and nothing fails (r is what a loop or ticker strand
\* keeps of the call; a listener keeps nothing, and for it r is some result
\* list); the same holds of the calls that detached goroutines make, which
\* start such calls for some results r or, halted by a failure, none.
C4_NextWorkersInvokedOnce ==
    /\ [][\A s \in DOMAIN strand :
            (strand[s].pc = "work" /\ strand'[s].pc # "work"
                /\ ~strand'[s].failed)
            => /\ \E r \in (IF s[2] = "event" THEN ArgLists
                             ELSE {strand'[s].last}) :
                     AddsOnePerMention(cascade, cascade',
                         strandWp(s).params.nextWorkers, r)
               /\ ~crashed']_vars
    /\ [][(cascade' # cascade /\ strand' = strand /\ ~crashed')
            => \E c \in BagToSet(cascade) :
                  LET rest == cascade (-) SetToBag({c})
                  IN \/ /\ c.pc = "work"
                        /\ c.wp.params.notifyOnError
                        /\ \E r \in ArgLists :
                              cascade' = rest (+) SetToBag(
                                  {[c EXCEPT !.pc = "notify", !.res = r]})
                     \/ /\ c.wp.params.stopOnError
                        /\ cascade' = rest
                     \/ \E r \in ArgLists :
                           AddsOnePerMention(rest, cascade',
                               c.wp.params.nextWorkers, r)]_vars

\* C4 witness: the loop strand of A, which names B next, has exited after
\* its one successful call, and the detached call of B with A's result is in
\* flight; A also names itself.
C4_Witness ==
    \E s \in LoopStrands, B \in DOMAIN workplaces :
        /\ B # s[1]
        /\ Mentions(strandWp(s).params.nextWorkers, B) = 1
        /\ strand[s].pc = "done" /\ ~strand[s].failed /\ strand[s].calls = 1
        /\ \E v \in Values : BagIn(DetachedCall(B, <<v>>), cascade)

\* C4 witness of the unregistered id: a strand whose workplace names next an
\* id that is not registered has made a successful call and runs on.
C4_WitnessUnregistered ==
    \E s \in DOMAIN strand, id \in IDs :
        /\ id \notin DOMAIN workplaces
        /\ Mentions(strandWp(s).params.nextWorkers, id) = 1
        /\ strand[s].calls = 1 /\ ~strand[s].failed /\ strand[s].pc = "wait"
        /\ cascade = EmptyBag /\ ~crashed

\* C5: an event strand calls the worker once per value it has received from
\* its channel, each call made at the receipt with that value as the only
\* argument, so in the order of receipt; it receives nothing from a closed
\* channel; and it exits only while waiting on the closed channel with every
\* received value processed, or right after a failed call of a workplace
\* whose errors stop the strand.
C5_EventStrandOncePerValue ==
    [][\A s \in EventStrands :
          LET before == strand[s]
              after == strand'[s]
          IN /\ after.pc # "done" => after.calls = Len(after.got)
             /\ (after.pc # "done" /\ after.got # before.got) =>
                   /\ before.pc = "wait" /\ ~closed[strandChan(s)]
                   /\ after.pc = "work"
                   /\ \E event \in Events :
                         /\ after.got = Append(before.got, event)
                         /\ after.cur = <<event>>
             /\ (after.pc = "work" /\ before.pc # "work") =>
                   after.got # before.got
             /\ (before.pc # "done" /\ after.pc = "done") =>
                   /\ after.calls = Len(before.got)
                   /\ \/ before.pc = "wait" /\ closed[strandChan(s)]
                      \/ /\ before.pc \in {"work", "notify"}
                         /\ after.failed
                         /\ strandWp(s).params.stopOnError]_vars

\* C5 witness: an event strand has received 2 then 1, has processed both, and
\* is at its closed channel.
C5_Witness ==
    \E s \in EventStrands :
        /\ strand[s].pc = "wait"
        /\ strand[s].got = <<2, 1>>
        /\ strand[s].calls = 2
        /\ closed[strandChan(s)]

\* Strand s takes the step in which a call of its workplace, whose errors stop
\* the strand, has failed.
HaltStep(s) ==
    /\ strand[s].pc \in {"work", "notify"}
    /\ strand'[s] # strand[s]
    /\ strand'[s].failed
    /\ strandWp(s).params.stopOnError

\* Every strand but s is where it was, with its locals, the process lives,
\* and the completion counters of the other workplaces are untouched.
OthersKeepRunning(s) ==
    /\ ~crashed'
    /\ \A o \in DOMAIN strand \ {s} : strand'[o] = strand[o]
    /\ \A id \in DOMAIN syncs \ {s[1]} : syncs'[id] = syncs[id]
    /\ launch' = launch

\* C6 as stated: a failed call of a workplace whose errors stop the strand
\* stops that strand only.
C6_HaltStopsOnlyItsStrand ==
    [][\A s \in DOMAIN strand : HaltStep(s) => OthersKeepRunning(s)]_vars

\* C6, amended: a failed call of a workplace whose errors stop the strand and
\* do not panic stops that strand only: every other strand of the workplace
\* and of the other workplaces is left where it was.
C6_HaltWithoutPanicStopsOnlyItsStrand ==
    [][\A s \in DOMAIN strand :
          (HaltStep(s) /\ ~strandWp(s).params.panicOnError)
              => OthersKeepRunning(s)]_vars

\* C6 witness: a strand was stopped by a failed call, without panic, and a
\* strand of the same workplace and a strand of another workplace are still
\* running.
C6_Witness ==
    /\ ~crashed
    /\ \E s \in DOMAIN strand :
          /\ strand[s].pc = "done" /\ strand[s].failed
          /\ strandWp(s).params.stopOnError
          /\ ~strandWp(s).params.panicOnError
          /\ \E o \in DOMAIN strand \ {s} :
                o[1] = s[1] /\ o[4] = s[4] /\ strand[o].pc # "done"
          /\ \E o \in DOMAIN strand : o[1] # s[1] /\ strand[o].pc # "done"

\* What a call that ends in a usage error leaves alone.
DirectorUntouched ==
    UNCHANGED <<workplaces, started, mx, execWorkplacesGroup, syncs, round,
                launch, wps, strand, cascade>>

\* C7: with one caller, a With or a Begin called on a started director ends
\* at once with DirectorAlreadyWorks, a Wait called on a director that has
\* not started ends at once with DirectorNotWorks, and the call changes
\* neither the registry nor started, and starts nothing.
C7_UsageErrorsChangeNothing ==
    [][\A t \in Threads :
          (thr[t].pc = "idle" /\ thr'[t] # thr[t]) =>
             /\ (thr'[t].op \in {"With", "Begin"} /\ started) =>
                   /\ thr'[t] = returned(thr'[t].op, DirectorAlreadyWorks)
                   /\ DirectorUntouched
             /\ (thr'[t].op = "Wait" /\ ~started) =>
                   /\ thr'[t] = returned("Wait", DirectorNotWorks)
                   /\ DirectorUntouched]_vars

\* C7 witness: With was called after Begin on a director with a workplace.
C7_Witness ==
    /\ started
    /\ workplaces # <<>>
    /\ thr["t1"] = returned("With", DirectorAlreadyWorks)

\* C8: a Begin that has passed its started test returns (or the process is
\* gone by a PanicOnError), whatever the workers, tickers and event channels
\* do: under FairSpec nothing but Begin and its launchers is ever bound to
\* take a step.
C8_BeginTerminates ==
    \A t \in Threads :
        (thr[t].pc \in {"begin_lock", "begin_wait"})
            ~> ((thr[t].op = "Begin" /\ thr[t].ret = "ok") \/ crashed)

\* C8 witness: Begin has returned while a call of an infinite loop has not,
\* and an event strand waits on a channel nobody has sent to or closed.
C8_Witness ==
    /\ ~crashed
    /\ thr["t1"] = returned("Begin", "ok")
    /\ \E s \in LoopStrands :
          /\ strandWp(s).params.amountOfExecutions < 0
          /\ strand[s].pc = "work"
    /\ \E s \in EventStrands :
          /\ strand[s].pc = "wait" /\ strand[s].calls = 0
          /\ ~closed[strandChan(s)]

\* The parameters of Begin applied in turn to the parameters of a workplace.
RECURSIVE ApplyAll(_, _)
ApplyAll(params, p) ==
    IF params = <<>> THEN p ELSE ApplyAll(Tail(params), Apply(Head(params), p))

\* C9 as stated: when Begin has ranged over its parameters, every registered
\* workplace has the parameters it had with the parameters of Begin applied
\* on top, and it is with these that its strands are started.
C9_BeginParamsApplied ==
    [][\A t \in Threads :
          (thr[t].pc = "begin_lock" /\ thr'[t].pc = "begin_wait") =>
             \A id \in DOMAIN workplaces :
                workplaces'[id].params
                   = ApplyAll(thr[t].bp, workplaces[id].params)]_vars

\* C10 as stated: every call of a ticker strand gets the firstArgs of its
\* workplace.
C10_TickerGetsFirstArgs ==
    \A s \in TickerStrands :
        strand[s].pc = "work"
            => strand[s].cur = workArgs(strandWp(s).params.firstArgs)

\* C10, amended: the first call of a ticker strand gets the firstArgs of its
\* workplace, and every later call gets the results of the strand's call
\* before it.
C10_TickerThreadsResults ==
    \A s \in TickerStrands :
        strand[s].pc = "work"
            => strand[s].cur
                  = IF strand[s].calls = 1
                    THEN workArgs(strandWp(s).params.firstArgs)
                    ELSE workArgs(strand[s].last)

\* C10 witness: the second call of a ticker strand is made with the results
\* of its first call, which are not the firstArgs.
C10_Witness ==
    \E s \in TickerStrands :
        /\ strand[s].pc = "work"
        /\ strand[s].calls = 2
        /\ strand[s].cur = strand[s].last
        /\ strand[s].cur # strandWp(s).params.firstArgs

\* C11: no completion counter counts a detached invocation: a step that
\* starts, advances or ends one changes no counter, and a Wait that stands at
\* a counter that is zero can go on whatever is in flight, so it never waits
\* for a detached invocation.
C11_WaitIgnoresCascade ==
    /\ [][cascade' # cascade => syncs' = syncs]_vars
    /\ [](\A t \in Threads :
            ~crashed =>
               /\ (thr[t].pc = "wait_loop" /\ syncs[thr[t].cur].loopSync = 0)
                     => ENABLED WaitLoopSync(t)
               /\ (thr[t].pc = "wait_ticker"
                     /\ syncs[thr[t].cur].tickerSync = 0)
                     => ENABLED WaitTickerSync(t)
               /\ (thr[t].pc = "wait_event" /\ syncs[thr[t].cur].eventSync = 0)
                     => ENABLED WaitEventSync(t))

\* C11 witness: Wait has returned and a detached invocation of a next
\* workplace is still in Work.
C11_Witness ==
    /\ ~crashed
    /\ thr["t1"] = returned("Wait", "ok")
    /\ \E c \in BagToSet(cascade) : c.pc = "work"

\* C12 as stated: once the context of a workplace is done, no loop, ticker or
\* event strand of the workplace enters Work.
C12_NoCallAfterContextDone ==
    [][\A s \in DOMAIN strand :
          (strand[s].pc # "work" /\ strand'[s].pc = "work")
             => ~(ctxDone /\ strandWp(s).params.rootContext \in Contexts)]_vars

\* What Work returns when it passes on what s.next.Work returned.
workerReturn ==
    IF tm.err = "" THEN [results |-> tm.x, err |-> ""]
    ELSE [results |-> <<>>, err |-> tm.err]

C17_TimedOutGoroutineLeaks ==
    (tm.pc = "returned" /\ tm.ret.err \in {TimeoutError, ContextError}) =>
        /\ tm.inner \in {"work", "send"}
        /\ ~ENABLED SelectResult
        /\ ~ENABLED SelectErr

\* C17 witness: Work returned TimeoutError while the worker was running; the
\* worker has returned since and the goroutine stands at its send.
C17_Witness ==
    /\ tm.pc = "returned"
    /\ tm.ret.err = TimeoutError
    /\ tm.ready = {"timer"}
    /\ tm.inner = "send"

\* C14 as stated: every call of a loop strand gets the firstArgs, or the
\* results of the strand's latest call that returned no error.
C14_LoopGetsLastGoodResults ==
    \A s \in LoopStrands :
        strand[s].pc = "work" => strand[s].cur = workArgs(strand[s].good)

\* C14, amended: the first call of a loop strand gets the firstArgs and every
\* later call gets the results of the strand's call before it, whether that
\* call returned an error (ignored by IgnoreWorkerErrors) or not.
C14_LoopThreadsResults ==
    \A s \in LoopStrands :
        strand[s].pc = "work"
            => strand[s].cur
                  = IF strand[s].calls = 1
                    THEN workArgs(strandWp(s).params.firstArgs)
                    ELSE workArgs(strand[s].last)

\* C14 witness: the second call of a loop strand is made with the results of
\* its first call, which returned an error, and not with the firstArgs.
C14_Witness ==
    \E s \in LoopStrands :
        /\ strand[s].pc = "work"
        /\ strand[s].calls = 2
        /\ strand[s].failed
        /\ strand[s].cur = strand[s].last
        /\ strand[s].cur # strand[s].good

\* The completion counter that counts strand s.
strandSync(s, counters) ==
    CASE s[2] = "loop" -> counters[s[1]].loopSync
      [] s[2] = "tick" -> counters[s[1]].tickerSync
      [] s[2] = "event" -> counters[s[1]].eventSync

\* C15: a call that fails in a strand of a workplace with NotifyError takes
\* the strand to the send of the error, before anything is decided or
\* started: no counter, no detached invocation and no panic comes with that
\* step. While the error is not received the strand does not move and its
\* counter is not given back, it leaves the send only to the decision of
\* execWorker, and no Wait returns while a strand stands at its send.
C15_NotifyBlocksStrand ==
    [][/\ \A s \in DOMAIN strand :
            /\ (/\ strandWp(s).params.notifyOnError
                /\ strand[s].pc = "work"
                /\ ~strand[s].failed /\ strand'[s].failed)
                  => /\ strand'[s].pc = "notify"
                     /\ UNCHANGED <<syncs, cascade, crashed>>
            /\ strand'[s].pc = "notify" =>
                  /\ strand[s].pc \in {"work", "notify"}
                  /\ strandSync(s, syncs') >= 1
            /\ (strand[s].pc = "notify" /\ strand'[s].pc = "notify")
                  => strand'[s] = strand[s]
            /\ (strand[s].pc = "notify" /\ strand'[s].pc # "notify")
                  => strand'[s].pc \in {"done", "check", "delay", "wait"}
       /\ \A t \in Threads :
            (thr[t].pc = "wait_event" /\ thr'[t].pc = "idle")
               => \A s \in DOMAIN strand : strand[s].pc # "notify"]_vars

\* C15 witness: a strand stands at the send of its error, every other strand
\* has returned, and Wait is waiting for the counter of that strand.
C15_Witness ==
    /\ ~crashed
    /\ thr["t1"].op = "Wait" /\ thr["t1"].pc \in {"wait_loop", "wait_event"}
    /\ \E s \in DOMAIN strand :
          /\ strand[s].pc = "notify"
          /\ s[1] = thr["t1"].cur
          /\ s[2] = IF thr["t1"].pc = "wait_loop" THEN "loop" ELSE "event"
          /\ \A o \in DOMAIN strand \ {s} : strand[o].pc = "done"

\* Strand s takes the step in which execWorker decides on a call that has
\* failed: after the send of the error if there is one, and the first failed
\* call of the strand if there is none.
FailedSettle(s) ==
    \/ /\ strand[s].pc = "work"
       /\ ~strand[s].failed /\ strand'[s].failed
       /\ strand'[s].pc # "notify"
    \/ strand[s].pc = "notify" /\ strand'[s].pc # "notify"

\* The step starts the detached calls of the next workers of strand s with
\* the results of its call: those the strand keeps, or sends with the error.
StartsNext(s) ==
    \E r \in (IF strand[s].pc = "notify" THEN {strand[s].res}
              ELSE IF s[2] = "event" THEN ArgLists ELSE {strand'[s].last}) :
        AddsOnePerMention(cascade, cascade', strandWp(s).params.nextWorkers, r)

\* C16 as stated: a failed call of a workplace whose errors stop the strand
\* starts no detached call, and a failed call of a workplace whose errors
\* are ignored starts one per mention of a registered workplace in its
\* nextWorkers with the results of the failed call.
C16_NextStartedUnlessHalted ==
    [][\A s \in DOMAIN strand :
          FailedSettle(s) =>
             IF strandWp(s).params.stopOnError
             THEN cascade' = cascade
             ELSE StartsNext(s)]_vars

\* C16, amended: as C16, for a workplace without PanicOnError; with
\* PanicOnError the failed call starts no detached call, whether its errors
\* are ignored or not.
C16_NextStartedUnlessHaltedOrPanic ==
    [][\A s \in DOMAIN strand :
          FailedSettle(s) =>
             IF strandWp(s).params.stopOnError
                   \/ strandWp(s).params.panicOnError
             THEN cascade' = cascade
             ELSE StartsNext(s)]_vars

\* C16 witness: the one call of a strand whose workplace ignores errors has
\* failed with the result 1, and the detached call of its next workplace with
\* 1 is in flight.
C16_Witness ==
    \E s \in DOMAIN strand, B \in DOMAIN workplaces :
        /\ ~strandWp(s).params.stopOnError
        /\ ~strandWp(s).params.panicOnError
        /\ Mentions(strandWp(s).params.nextWorkers, B) = 1
        /\ strand[s].failed /\ strand[s].calls = 1
        /\ strand[s].pc \notin {"work", "notify"}
        /\ BagIn(DetachedCall(B, <<1>>), cascade)

\* The threads that are in the body of With and of Begin.
InWith == {t \in Threads : thr[t].pc \in {"with_lock", "with_params"}}
InBegin == {t \in Threads : thr[t].pc \in {"begin_lock", "begin_wait"}}

\* C18 as stated: under ConcSpec, where With, Begin and Wait are called from
\* two threads at any time, no step changes the registry once started is
\* true, and whenever the director has started and no call of With or Begin
\* is under way, execWorkplace has been started for every registered
\* workplace.
C18_RegistryFrozenOnceStarted ==
    /\ [][started => workplaces' = workplaces]_vars
    /\ [](started /\ InWith = {} /\ InBegin = {}
            => \A id \in DOMAIN workplaces :
                  \E k \in DOMAIN launch : k[1] = id)

\* C19 as stated: under ConcSpec the body of Begin runs at most once, so
\* that every workplace gets at most one execWorkplace and one loop strand.
C19_OneBeginLaunches ==
    /\ round <= 1
    /\ \A id \in DOMAIN workplaces :
          /\ Cardinality({k \in DOMAIN launch : k[1] = id}) <= 1
          /\ Cardinality({s \in LoopStrands : s[1] = id}) <= 1

\* Every execWorkplace that Begin started has started its strands, and every
\* strand has returned.
LaunchedStrandsExited ==
    /\ \A k \in DOMAIN launch : launch[k] = "done"
    /\ \A s \in DOMAIN strand : strand[s].pc = "done"

\* C20 as stated: under ConcSpec, a Wait that returns while the one Begin of
\* the director is still in its body has not ended with DirectorNotWorks, and
\* returns only when every strand that Begin launches has exited.
C20_WaitDuringBeginWaitsForStrands ==
    [][\A t \in Threads :
          (/\ round = 1
           /\ InBegin # {}
           /\ thr[t].op = "Wait"
           /\ thr[t].pc # "idle" /\ thr'[t].pc = "idle")
             => /\ thr'[t].ret = "ok"
                /\ LaunchedStrandsExited']_vars
====
